---------------------------- MODULE Spec2Model ----------------------------
(***************************************************************************)
(* A model of the household expense splitter of src/app.py: the session    *)
(* ledger (members, expenses, recurring definitions), the JSON data file,  *)
(* the balance calculator calc_bals, the settlement planner sug_setts and  *)
(* the recurring-expense generator.                                        *)
(*                                                                         *)
(* Numbers.  An amount is a whole number of cents.  A balance is a whole   *)
(* number of units, Scale units to the cent, where Scale is a common       *)
(* multiple of every possible participant count, so that the division of   *)
(* calc_bals is exact.  The model computes in exact arithmetic; where the  *)
(* binary floating point of the program decides a branch that exact        *)
(* arithmetic cannot predict (a half-cent tie of round(), a one-cent       *)
(* remainder compared with 0.01) the model takes either outcome.           *)
(*                                                                         *)
(* Dates.  A date object is a day number of the year 2025 (1 = January 1)  *)
(* and a date string 'YYYY-MM-DD' is the tuple <<year, month, day>>.       *)
(***************************************************************************)
EXTENDS Integers, Sequences, FiniteSets, TLC

VARIABLES
    members,             \* st.session_state.members
    expenses,            \* st.session_state.expenses
    recurring_expenses,  \* st.session_state.recurring_expenses
    data_loaded_flag,    \* st.session_state.data_loaded_flag
    loads,               \* how many calls of ld_dat have returned in this session (history)
    file,                \* the content of household_data.json
    today,               \* date.today(), a day number
    last,                \* what the last script run did (history)
    bals,                \* sug_setts: its argument
    clean_bals,          \* sug_setts: the rounded balances kept
    sorted_debtors,      \* sug_setts: the debtor list being walked
    sorted_creds,        \* sug_setts: the creditor list being walked
    d_idx,               \* sug_setts: debtor cursor (0-based)
    c_idx,               \* sug_setts: creditor cursor (0-based)
    setts,               \* sug_setts: the payments emitted
    steps,               \* sug_setts: iterations of the while loop so far
    pc,                  \* sug_setts: position in the function
    other                \* the session state of a second browser session on the same file

ledgerVars == <<members, expenses, recurring_expenses, data_loaded_flag, loads, file, today, last>>
settVars == <<bals, clean_bals, sorted_debtors, sorted_creds, d_idx, c_idx, setts, steps, pc>>
vars == <<members, expenses, recurring_expenses, data_loaded_flag, loads, file, today, last,
          bals, clean_bals, sorted_debtors, sorted_creds, d_idx, c_idx, setts, steps, pc,
          other>>

---------------------------------------------------------------------------
(* Bounds of the model *)

MaxExps == 2     \* Spec: the expense list holds at most this many expenses
MaxRecs == 1     \* Spec: the recurring list holds at most this many definitions
MaxBalExps == 2  \* SpecBal: the expense list holds at most this many expenses
MaxGenExps == 2  \* SpecGen: the expense list holds at most this many expenses
MaxGenRecs == 1  \* SpecGen: the recurring list holds at most this many definitions
MaxRunExps == 2  \* SpecRun: the expense list holds at most this many expenses
MaxRunRecs == 2  \* SpecRun: the recurring list holds at most this many definitions
MaxTwoExps == 2  \* SpecTwo: the expense list of a session holds at most this many expenses

---------------------------------------------------------------------------
(* Generic helpers *)

Range(s) == {s[i] : i \in 1..Len(s)}

Max(a, b) == IF a >= b THEN a ELSE b

Min(a, b) == IF a <= b THEN a ELSE b

Abs(x) == IF x < 0 THEN -x ELSE x

RECURSIVE Gcd(_, _)
Gcd(a, b) == IF b = 0 THEN a ELSE Gcd(b, a % b)

RECURSIVE LcmUpTo(_)
LcmUpTo(n) == IF n <= 1 THEN 1 ELSE LET l == LcmUpTo(n - 1) IN (l * n) \div Gcd(l, n)

RECURSIVE SelectSeqBy(_, _)
\* [x for x in s if keep[x]] with keep a set of positions' values
SelectSeqBy(s, keep) ==
    IF s = <<>> THEN <<>>
    ELSE (IF Head(s) \in keep THEN <<Head(s)>> ELSE <<>>) \o SelectSeqBy(Tail(s), keep)

RECURSIVE SubSeqs(_)
\* every selection of positions of s, in the order of s
SubSeqs(s) ==
    IF s = <<>> THEN {<<>>}
    ELSE LET rest == SubSeqs(Tail(s))
         IN  rest \cup {<<Head(s)>> \o r : r \in rest}

---------------------------------------------------------------------------
(* Dates: datetime.date, strftime('%Y-%m-%d') and strptime *)

MonthLen == <<31, 28, 31, 30, 31, 30, 31, 31, 30, 31, 30, 31>>

RECURSIVE MonthDay(_, _)
MonthDay(n, m) == IF n <= MonthLen[m] THEN <<2025, m, n>> ELSE MonthDay(n - MonthLen[m], m + 1)

\* dt_obj.strftime('%Y-%m-%d') of the date with day number n
strftime(n) == MonthDay(n, 1)

RECURSIVE DaysBefore(_)
DaysBefore(m) == IF m <= 1 THEN 0 ELSE MonthLen[m - 1] + DaysBefore(m - 1)

\* datetime.strptime(s, '%Y-%m-%d').date() as a day number
strptime(s) == DaysBefore(s[2]) + s[3]

\* The days the model's clock and date inputs range over: differences of
\* 0, 1, 29, 30 and 31 days, across the January/February boundary.
Days == {1, 2, 31, 32}

---------------------------------------------------------------------------
(* Values *)

None == <<>>                       \* Python None where a date string may stand

NoPayer == "None"                  \* pd_by = None

JStr(s) == [t |-> "str", v |-> s]  \* a JSON string holding a date
JNull == [t |-> "null", v |-> <<>>] \* JSON null
PyDate(n) == [t |-> "date", v |-> n] \* a datetime.date object

DefaultMembers == <<"Alice", "Bob", "Charlie", "Tim">>

DEFAULT_CATEGORIES ==
    <<"Groceries", "Utilities", "Rent", "Transport", "Dining Out", "Entertainment",
      "Shopping", "Health", "Education/School", "Miscellaneous/other">>

Frequencies == <<"Monthly", "Weekly", "Annually">>

---------------------------------------------------------------------------
(* uuid.uuid4(): an identifier no record of the session or the file carries *)

IdsOf(recs) == {r.id : r \in Range(recs)}

FileIds(f) ==
    IF f.kind = "json"
    THEN {d.id : d \in {x \in Range(f.expenses) \cup Range(f.recurring_expenses) : "id" \in DOMAIN x}}
    ELSE {}

uuid4(used) == CHOOSE i \in 1..(Cardinality(used) + 1) : i \notin used

---------------------------------------------------------------------------
(* class Exp *)

\* Exp.__init__: the date branch; anything but a date or a string raises TypeError
ExpDateOk(dt_obj) == dt_obj.t \in {"date", "str"}

ExpDate(dt_obj) == IF dt_obj.t = "date" THEN strftime(dt_obj.v) ELSE dt_obj.v

\* Exp(desc, amt, pd_by, parts, dt_obj, category), given the uuid it draws
Exp(id, desc, amt, pd_by, parts, dt_obj, category) ==
    [id |-> id, description |-> desc, amount |-> amt, paid_by |-> pd_by,
     participants |-> parts, category |-> category, date |-> ExpDate(dt_obj)]

\* Exp.to_dict
Exp_to_dict(exp) ==
    [id |-> exp.id, description |-> exp.description, amount |-> exp.amount,
     paid_by |-> exp.paid_by, participants |-> exp.participants,
     date |-> JStr(exp.date), category |-> exp.category]

ExpRequiredKeys == {"description", "amount", "paid_by", "participants", "date"}

\* Exp.from_dict: the exception it raises on this dictionary, or "none"
Exp_from_dict_err(data) ==
    IF ~(ExpRequiredKeys \subseteq DOMAIN data) THEN "KeyError"
    ELSE IF ~ExpDateOk(data.date) THEN "TypeError"
    ELSE "none"

\* Exp.from_dict: cls(...) builds a new object, which draws a new uuid;
\* data['id'] is not read
Exp_from_dict(data, id) ==
    Exp(id, data.description, data.amount, data.paid_by, data.participants, data.date,
        IF "category" \in DOMAIN data THEN data.category ELSE "Uncategorized")

---------------------------------------------------------------------------
(* class RecurringExp *)

RecurringExp(id, desc, amt, pd_by, parts, category, frequency) ==
    [id |-> id, description |-> desc, amount |-> amt, paid_by |-> pd_by,
     participants |-> parts, category |-> category, frequency |-> frequency,
     last_generated |-> None]

RecurringExp_to_dict(rec_exp) ==
    [id |-> rec_exp.id, description |-> rec_exp.description, amount |-> rec_exp.amount,
     paid_by |-> rec_exp.paid_by, participants |-> rec_exp.participants,
     category |-> rec_exp.category, frequency |-> rec_exp.frequency,
     last_generated |-> IF rec_exp.last_generated = None THEN JNull
                        ELSE JStr(rec_exp.last_generated)]

RecRequiredKeys == {"description", "amount", "paid_by", "participants", "category", "frequency"}

RecurringExp_from_dict_err(data) ==
    IF ~(RecRequiredKeys \subseteq DOMAIN data) THEN "KeyError" ELSE "none"

RecurringExp_from_dict(data, id) ==
    [RecurringExp(id, data.description, data.amount, data.paid_by, data.participants,
                  data.category, data.frequency)
     EXCEPT !.last_generated =
        IF "last_generated" \in DOMAIN data /\ data.last_generated.t = "str"
        THEN data.last_generated.v ELSE None]

---------------------------------------------------------------------------
(* sv_dat and ld_dat *)

NoFile == [kind |-> "absent"]

\* a save that keeps the expenses the file holds and the session does not
sv_dat_keeping_file_expenses(mems, exps, rec_exps) ==
    LET mine == [i \in 1..Len(exps) |-> Exp_to_dict(exps[i])]
        kept == IF file.kind = "json"
                THEN SelectSeq(file.expenses, LAMBDA d : d \notin Range(mine))
                ELSE <<>>
    IN  [kind |-> "json",
         members |-> mems,
         expenses |-> kept \o mine,
         recurring_expenses |-> [i \in 1..Len(rec_exps) |-> RecurringExp_to_dict(rec_exps[i])]]

\* sv_dat: the document json.dump writes
sv_dat(mems, exps, rec_exps) ==
    [kind |-> "json",
     members |-> mems,
     expenses |-> [i \in 1..Len(exps) |-> Exp_to_dict(exps[i])],
     recurring_expenses |-> [i \in 1..Len(rec_exps) |-> RecurringExp_to_dict(rec_exps[i])]]

RECURSIVE FirstErr(_)
\* the first exception of a list comprehension whose items raise errs[i]
FirstErr(errs) ==
    IF errs = <<>> THEN "none"
    ELSE IF Head(errs) # "none" THEN Head(errs)
    ELSE FirstErr(Tail(errs))

RECURSIVE LoadExps(_, _)
\* [Exp.from_dict(d) for d in dicts], each object drawing an unused uuid
LoadExps(dicts, used) ==
    IF dicts = <<>> THEN <<>>
    ELSE LET id == uuid4(used)
         IN  <<Exp_from_dict(Head(dicts), id)>> \o LoadExps(Tail(dicts), used \cup {id})

RECURSIVE LoadRecs(_, _)
LoadRecs(dicts, used) ==
    IF dicts = <<>> THEN <<>>
    ELSE LET id == uuid4(used)
         IN  <<RecurringExp_from_dict(Head(dicts), id)>> \o LoadRecs(Tail(dicts), used \cup {id})

\* ld_dat on file content f with the session holding mems, exps, rec_exps:
\* the session it leaves and the exception that ended it ("none": it returned).
\* The three session fields are assigned in turn, so an exception raised while
\* the expenses are built leaves the members already replaced.
ld_dat(f, mems, exps, rec_exps) ==
    IF f.kind = "absent"
    THEN [members |-> mems, expenses |-> exps, recurring_expenses |-> rec_exps, err |-> "none"]
    ELSE IF f.kind # "json"
    THEN [members |-> mems, expenses |-> exps, recurring_expenses |-> rec_exps,
          err |-> "JSONDecodeError"]
    ELSE
        LET e1 == FirstErr([i \in 1..Len(f.expenses) |-> Exp_from_dict_err(f.expenses[i])])
            e2 == FirstErr([i \in 1..Len(f.recurring_expenses) |->
                                RecurringExp_from_dict_err(f.recurring_expenses[i])])
            used == FileIds(f)
            newExps == LoadExps(f.expenses, used)
        IN  IF e1 # "none"
            THEN [members |-> f.members, expenses |-> exps,
                  recurring_expenses |-> rec_exps, err |-> e1]
            ELSE IF e2 # "none"
            THEN [members |-> f.members, expenses |-> newExps,
                  recurring_expenses |-> rec_exps, err |-> e2]
            ELSE [members |-> f.members, expenses |-> newExps,
                  recurring_expenses |-> LoadRecs(f.recurring_expenses, used \cup IdsOf(newExps)),
                  err |-> "none"]


---------------------------------------------------------------------------
(* The "Edit Members" text area: a text is a sequence of lines, a line a    *)
(* sequence of tokens, " " for white space and a name otherwise.            *)

\* name.strip() of a line holding at most one name
strip(line) ==
    LET tokens == SelectSeq(line, LAMBDA t : t # " ")
    IN  IF tokens = <<>> THEN "" ELSE tokens[1]

RECURSIVE new_mems(_)
\* [name.strip() for name in text.split('\n') if name.strip()]
new_mems(text) ==
    IF text = <<>> THEN <<>>
    ELSE (IF strip(Head(text)) # "" THEN <<strip(Head(text))>> ELSE <<>>) \o new_mems(Tail(text))

\* the texts the model submits with "Update Members"
MemberTexts ==
    { << <<"A">>, <<"B">> >>,
      << <<"A">> >>,
      << <<" ", "A", " ">>, <<>>, <<"B">>, <<" ">>, <<"C", " ">> >>,
      << <<"A">>, <<" ", "A">> >>,
      << <<"B">> >>,
      << <<" ">> >> }

MemberLists == {DefaultMembers} \cup {new_mems(t) : t \in MemberTexts}

\* the longest participant list: no expense is split more ways than this
MaxParts == CHOOSE n \in {Len(m) : m \in MemberLists} : \A m \in MemberLists : Len(m) <= n

\* balance units per cent: every split amount / num_parts is a whole number of units
Scale == LcmUpTo(MaxParts)

---------------------------------------------------------------------------
(* calc_bals: a dict is the sequence of its items in insertion order *)

RECURSIVE Keys(_, _)
\* the keys of {mem: 0.0 for mem in mems}: first occurrences, in order
Keys(mems, seen) ==
    IF mems = <<>> THEN <<>>
    ELSE IF Head(mems) \in seen THEN Keys(Tail(mems), seen)
    ELSE <<Head(mems)>> \o Keys(Tail(mems), seen \cup {Head(mems)})

\* the participants taken as they are, removed members included
valid_parts_unfiltered(exp, mems) == exp.participants

\* valid_parts = [p for p in exp.participants if p in mems]
valid_parts(exp, mems) == SelectSeqBy(exp.participants, Range(mems))

\* a share rounded down to whole cents
split_amt_whole_cents(exp, num_parts) == (exp.amount \div num_parts) * Scale

\* split_amt = exp.amount / num_parts, in units
split_amt(exp, num_parts) == (exp.amount * Scale) \div num_parts

\* how often name occurs in the list s
Count(name, s) == Cardinality({i \in 1..Len(s) : s[i] = name})

\* a loop that passes over an expense none of whose participants is a member
AfterExp_skip_unsplit(b, mem, exp, mems) ==
    LET vp == valid_parts(exp, mems)
        num_parts == Len(vp)
    IN  IF num_parts > 0
        THEN (IF exp.paid_by = mem THEN b + exp.amount * Scale ELSE b)
                 - Count(mem, vp) * split_amt(exp, num_parts)
        ELSE b

\* one turn of the loop over exps: the balance of mem after exp, from b before
AfterExp(b, mem, exp, mems) ==
    LET credited == IF exp.paid_by = mem THEN b + exp.amount * Scale ELSE b
        vp == valid_parts(exp, mems)
        num_parts == Len(vp)
    IN  IF num_parts > 0
        THEN credited - Count(mem, vp) * split_amt(exp, num_parts)
        ELSE credited

RECURSIVE BalOf(_, _, _, _)
BalOf(mem, exps, mems, b) ==
    IF exps = <<>> THEN b
    ELSE BalOf(mem, Tail(exps), mems, AfterExp(b, mem, Head(exps), mems))

calc_bals(mems, exps) ==
    LET keys == Keys(mems, {})
    IN  [i \in 1..Len(keys) |-> [mem |-> keys[i], bal |-> BalOf(keys[i], exps, mems, 0)]]

RECURSIVE SumBals(_)
\* sum(bals.values())
SumBals(b) == IF b = <<>> THEN 0 ELSE Head(b).bal + SumBals(Tail(b))

---------------------------------------------------------------------------
(* sug_setts *)

\* round(bal, 2) in cents.  round() rounds the binary value of the float to
\* the nearest cent; for a balance that is a half cent in exact arithmetic the
\* float lies just above or just below the tie, so either neighbour can result.
RoundChoices(bal) ==
    LET q == bal \div Scale
        r == bal % Scale
    IN  IF 2 * r < Scale THEN {q}
        ELSE IF 2 * r > Scale THEN {q + 1}
        ELSE {q, q + 1}

RECURSIVE CleanChoices(_)
\* clean_bals = {mem: round(bal, 2) for mem, bal in bals.items() if abs(bal) > 0.01}:
\* every dict the comprehension can produce, amounts in cents
CleanChoices(b) ==
    IF b = <<>> THEN {<<>>}
    ELSE LET rest == CleanChoices(Tail(b))
         IN  IF Abs(Head(b).bal) > Scale
             THEN {<<[mem |-> Head(b).mem, bal |-> c]>> \o r :
                        c \in RoundChoices(Head(b).bal), r \in rest}
             ELSE rest

\* an item that counts as settled only at zero
Item_settled_at_zero(name, amt) == [name |-> name, amt |-> amt, gt |-> amt > 0]

\* an item of sorted_debtors or sorted_creds: amt in cents, and gt: whether
\* the float is > 0.01
Item(name, amt) == [name |-> name, amt |-> amt, gt |-> amt > 1]

RECURSIVE debtors(_)
\* {mem: abs(bal) for mem, bal in clean_bals.items() if bal < 0}
debtors(clean) ==
    IF clean = <<>> THEN <<>>
    ELSE (IF Head(clean).bal < 0 THEN <<Item(Head(clean).mem, Abs(Head(clean).bal))>> ELSE <<>>)
         \o debtors(Tail(clean))

RECURSIVE creds(_)
\* {mem: bal for mem, bal in clean_bals.items() if bal > 0}
creds(clean) ==
    IF clean = <<>> THEN <<>>
    ELSE (IF Head(clean).bal > 0 THEN <<Item(Head(clean).mem, Head(clean).bal)>> ELSE <<>>)
         \o creds(Tail(clean))

RECURSIVE InsertDesc(_, _)
\* x placed behind every item of the descending list s that is not smaller
InsertDesc(x, s) ==
    IF s = <<>> THEN <<x>>
    ELSE IF Head(s).amt >= x.amt THEN <<Head(s)>> \o InsertDesc(x, Tail(s))
    ELSE <<x>> \o s

RECURSIVE SortedInto(_, _)
SortedInto(items, acc) ==
    IF items = <<>> THEN acc ELSE SortedInto(Tail(items), InsertDesc(Head(items), acc))

\* sorted(d.items(), key=lambda item: item[1], reverse=True): stable
sorted_desc(items) == SortedInto(items, <<>>)

\* a loop that tests "current < 0" and so never leaves a settled item
GtChoices_never_settled(amt) == {amt >= 0}

\* current - pay_amt as a float compared with 0.01: a remainder of exactly one
\* cent lands on either side of the literal 0.01 (1.01 - 1.0 > 0.01)
GtChoices(amt) == IF amt = 1 THEN {TRUE, FALSE} ELSE {amt > 1}

\* line 338: setts = [(d, c, amt) for d, c, amt in setts if amt > 0.01]
final_filter(s) == SelectSeq(s, LAMBDA p : p.gt)

SettInit(inputs) ==
    /\ bals \in inputs
    /\ clean_bals = <<>>
    /\ sorted_debtors = <<>>
    /\ sorted_creds = <<>>
    /\ d_idx = 0
    /\ c_idx = 0
    /\ setts = <<>>
    /\ steps = 0
    /\ pc = "start"

\* lines 308-319
SettStart ==
    /\ pc = "start"
    /\ clean_bals' \in CleanChoices(bals)
    /\ sorted_debtors' = sorted_desc(debtors(clean_bals'))
    /\ sorted_creds' = sorted_desc(creds(clean_bals'))
    /\ d_idx' = 0
    /\ c_idx' = 0
    /\ setts' = <<>>
    /\ pc' = "loop"
    /\ UNCHANGED <<bals, steps>>

\* line 321
LoopCond == d_idx < Len(sorted_debtors) /\ c_idx < Len(sorted_creds)

\* lines 325-327
SettSkipDebtor ==
    /\ pc = "loop" /\ LoopCond
    /\ ~sorted_debtors[d_idx + 1].gt
    /\ d_idx' = d_idx + 1
    /\ steps' = steps + 1
    /\ UNCHANGED <<bals, clean_bals, sorted_debtors, sorted_creds, c_idx, setts, pc>>

\* lines 328-330
SettSkipCred ==
    /\ pc = "loop" /\ LoopCond
    /\ sorted_debtors[d_idx + 1].gt
    /\ ~sorted_creds[c_idx + 1].gt
    /\ c_idx' = c_idx + 1
    /\ steps' = steps + 1
    /\ UNCHANGED <<bals, clean_bals, sorted_debtors, sorted_creds, d_idx, setts, pc>>

\* the larger of the two amounts taken for the payment
pay_amt_max(current_deb, current_cred) == Max(current_deb, current_cred)

\* line 332
pay_amt(current_deb, current_cred) == Min(current_deb, current_cred)

\* lines 332-336
SettPay ==
    /\ pc = "loop" /\ LoopCond
    /\ sorted_debtors[d_idx + 1].gt
    /\ sorted_creds[c_idx + 1].gt
    /\ LET deb == sorted_debtors[d_idx + 1]
           cred == sorted_creds[c_idx + 1]
           pay == pay_amt(deb.amt, cred.amt)
       IN  /\ setts' = Append(setts, [d |-> deb.name, c |-> cred.name, amt |-> pay, gt |-> TRUE])
           /\ \E g \in GtChoices(deb.amt - pay) :
                 sorted_debtors' = [sorted_debtors EXCEPT ![d_idx + 1] =
                                        [name |-> deb.name, amt |-> deb.amt - pay, gt |-> g]]
           /\ \E g \in GtChoices(cred.amt - pay) :
                 sorted_creds' = [sorted_creds EXCEPT ![c_idx + 1] =
                                        [name |-> cred.name, amt |-> cred.amt - pay, gt |-> g]]
    /\ steps' = steps + 1
    /\ UNCHANGED <<bals, clean_bals, d_idx, c_idx, pc>>

\* lines 338-339
SettReturn ==
    /\ pc = "loop" /\ ~LoopCond
    /\ setts' = final_filter(setts)
    /\ pc' = "done"
    /\ UNCHANGED <<bals, clean_bals, sorted_debtors, sorted_creds, d_idx, c_idx, steps>>

---------------------------------------------------------------------------
(* The settlement planner on its own: sug_setts run on any balances dict *)

MaxBals == 3     \* the balances dict holds at most this many members

SettNames == <<"A", "B", "C", "D", "E">>

\* balances in units: whole cents from -3 to 3, one unit beyond a cent, and
\* the half-cent tie 1.5
BalVals ==
    {c * Scale : c \in -3..3}
        \cup {Scale + 1, -(Scale + 1), (3 * Scale) \div 2, -((3 * Scale) \div 2)}

BalInputs ==
    UNION {{[i \in 1..k |-> [mem |-> SettNames[i], bal |-> f[i]]] : f \in [1..k -> BalVals]} :
            k \in 0..MaxBals}

\* the session as the module-level code of lines 162-169 leaves it
SessionInit ==
    /\ members = DefaultMembers
    /\ expenses = <<>>
    /\ recurring_expenses = <<>>
    /\ data_loaded_flag = FALSE
    /\ loads = 0

\* the session state of a browser session that has not run the script yet
SessionDefaults ==
    [members |-> DefaultMembers, expenses |-> <<>>, recurring_expenses |-> <<>>,
     data_loaded_flag |-> FALSE, loads |-> 0]

NoRun == [op |-> "none", err |-> "none", malformed |-> FALSE, saved |-> FALSE,
          invalid |-> FALSE, count |-> 0, gen |-> <<>>, day |-> 0, gap |-> -1, prev_count |-> 0]

SettSpecInit ==
    /\ SessionInit
    /\ file = NoFile
    /\ today = 1
    /\ last = NoRun
    /\ other = SessionDefaults
    /\ SettInit(BalInputs)

SettNext ==
    \/ SettStart /\ UNCHANGED <<ledgerVars, other>>
    \/ SettSkipDebtor /\ UNCHANGED <<ledgerVars, other>>
    \/ SettSkipCred /\ UNCHANGED <<ledgerVars, other>>
    \/ SettPay /\ UNCHANGED <<ledgerVars, other>>
    \/ SettReturn /\ UNCHANGED <<ledgerVars, other>>

SpecSett == SettSpecInit /\ [][SettNext]_vars

---------------------------------------------------------------------------
(* Properties of sug_setts *)

RECURSIVE SumAmt(_)
SumAmt(s) == IF s = <<>> THEN 0 ELSE Head(s).amt + SumAmt(Tail(s))

PaidBy(name) == SumAmt(SelectSeq(setts, LAMBDA p : p.d = name))

PaidTo(name) == SumAmt(SelectSeq(setts, LAMBDA p : p.c = name))

\* the debtors and creditors sug_setts starts from, amounts in cents
Debtors0 == debtors(clean_bals)
Creds0 == creds(clean_bals)

\* C2 as claimed: when sug_setts has returned, every debtor has paid exactly
\* its rounded debt and every creditor has received exactly its rounded credit.
C2_ExactPerMember ==
    pc = "done" =>
        /\ \A i \in 1..Len(Debtors0) : PaidBy(Debtors0[i].name) = Debtors0[i].amt
        /\ \A i \in 1..Len(Creds0) : PaidTo(Creds0[i].name) = Creds0[i].amt

\* C2, amended: when sug_setts has returned, no debtor has paid more than its
\* rounded debt, no creditor has received more than its rounded credit, and on
\* one of the two sides every member is within one cent of its rounded amount.
C2_NeverMoreOneSideSettled ==
    pc = "done" =>
        /\ \A i \in 1..Len(Debtors0) : PaidBy(Debtors0[i].name) <= Debtors0[i].amt
        /\ \A i \in 1..Len(Creds0) : PaidTo(Creds0[i].name) <= Creds0[i].amt
        /\ \/ \A i \in 1..Len(Debtors0) : Debtors0[i].amt - PaidBy(Debtors0[i].name) <= 1
           \/ \A i \in 1..Len(Creds0) : Creds0[i].amt - PaidTo(Creds0[i].name) <= 1

\* sug_setts has returned a payment and has left a debtor more than a cent
\* short of its rounded debt
C2_Witness ==
    /\ pc = "done"
    /\ Len(setts) >= 1
    /\ \E i \in 1..Len(Debtors0) : Debtors0[i].amt - PaidBy(Debtors0[i].name) > 1

StepBound ==
    IF Debtors0 = <<>> \/ Creds0 = <<>> THEN 0
    ELSE 2 * (Len(Debtors0) + Len(Creds0) - 1)

---------------------------------------------------------------------------
(* The session: one action per script run that does something *)

\* the record of a script run that executed op
Ran(op) == [NoRun EXCEPT !.op = op]

UsedIds ==
    IdsOf(expenses) \cup IdsOf(recurring_expenses) \cup FileIds(file)
        \cup IdsOf(other.expenses) \cup IdsOf(other.recurring_expenses)

\* the data file exists and json.load or a from_dict raises on it
Malformed(f) ==
    /\ f.kind # "absent"
    /\ \/ f.kind # "json"
       \/ \E i \in 1..Len(f.expenses) : Exp_from_dict_err(f.expenses[i]) # "none"
       \/ \E i \in 1..Len(f.recurring_expenses) :
             RecurringExp_from_dict_err(f.recurring_expenses[i]) # "none"

\* main, lines 699-702: the first run of a session loads the file; an
\* exception of ld_dat ends the run before the flag is set
main_ld_dat ==
    /\ ~data_loaded_flag
    /\ LET r == ld_dat(file, members, expenses, recurring_expenses)
       IN  /\ members' = r.members
           /\ expenses' = r.expenses
           /\ recurring_expenses' = r.recurring_expenses
           /\ data_loaded_flag' = (r.err = "none")
           /\ loads' = IF r.err = "none" THEN loads + 1 ELSE loads
           /\ last' = [Ran("ld_dat") EXCEPT !.err = r.err, !.malformed = Malformed(file)]
    /\ UNCHANGED <<file, today>>

\* a new browser session: lines 162-169 run on an empty session state
NewSession ==
    /\ members' = DefaultMembers
    /\ expenses' = <<>>
    /\ recurring_expenses' = <<>>
    /\ data_loaded_flag' = FALSE
    /\ loads' = 0
    /\ last' = Ran("new_session")
    /\ UNCHANGED <<file, today>>

\* disp_mems, lines 354-359: "Update Members" with the text area holding text
disp_mems(text) ==
    /\ data_loaded_flag
    /\ members' = new_mems(text)
    /\ file' = sv_dat(members', expenses, recurring_expenses)
    /\ last' = [Ran("update_members") EXCEPT !.saved = TRUE]
    /\ UNCHANGED <<expenses, recurring_expenses, data_loaded_flag, loads, today>>

\* what the "Who Paid?" selectbox can hold (lines 371-376)
PayerChoices(mems) == IF mems = <<>> THEN {NoPayer} ELSE Range(mems)

\* what the participants multiselect can hold (lines 372-383)
PartsChoices(mems) == IF mems = <<>> THEN {<<>>} ELSE SubSeqs(mems)

\* a submission the forms are to reject: empty description, non-positive
\* amount, no payer or no participant
Invalid(desc, amt, pd_by, parts) == desc = "" \/ amt <= 0 \/ pd_by = NoPayer \/ parts = <<>>

\* a form check that forgets the participants
form_ok_without_parts(desc, pd_by, parts) == ~(desc = "" \/ pd_by = NoPayer)

\* lines 392 and 432: not (not desc or pd_by is None or not parts)
form_ok(desc, pd_by, parts) == ~(desc = "" \/ pd_by = NoPayer \/ parts = <<>>)

\* disp_add_exp, lines 391-399: the add-expense form is submitted
disp_add_exp(desc, amt, pd_by, parts, exp_dt, category) ==
    /\ data_loaded_flag
    /\ IF ~form_ok(desc, pd_by, parts)
       THEN /\ last' = [Ran("add_exp") EXCEPT !.invalid = Invalid(desc, amt, pd_by, parts),
                                               !.err = "st.error"]
            /\ UNCHANGED <<expenses, file>>
       ELSE /\ expenses' = Append(expenses,
                                  Exp(uuid4(UsedIds), desc, amt, pd_by, parts, PyDate(exp_dt), category))
            /\ file' = sv_dat(members, expenses', recurring_expenses)
            /\ last' = [Ran("add_exp") EXCEPT !.invalid = Invalid(desc, amt, pd_by, parts),
                                               !.saved = TRUE]
    /\ UNCHANGED <<members, recurring_expenses, data_loaded_flag, loads, today>>

\* disp_recurring_exp_manager, lines 431-439: the add-definition form is submitted
disp_recurring_add(rec_desc, rec_amt, rec_pd_by, rec_parts, rec_category, rec_frequency) ==
    /\ data_loaded_flag
    /\ IF ~form_ok(rec_desc, rec_pd_by, rec_parts)
       THEN /\ last' = [Ran("add_rec") EXCEPT
                            !.invalid = Invalid(rec_desc, rec_amt, rec_pd_by, rec_parts),
                            !.err = "st.error"]
            /\ UNCHANGED <<recurring_expenses, file>>
       ELSE /\ recurring_expenses' =
                  Append(recurring_expenses,
                         RecurringExp(uuid4(UsedIds), rec_desc, rec_amt, rec_pd_by, rec_parts,
                                      rec_category, rec_frequency))
            /\ file' = sv_dat(members, expenses, recurring_expenses')
            /\ last' = [Ran("add_rec") EXCEPT
                            !.invalid = Invalid(rec_desc, rec_amt, rec_pd_by, rec_parts),
                            !.saved = TRUE]
    /\ UNCHANGED <<members, expenses, data_loaded_flag, loads, today>>

\* a window of one week
recent_within_week(current_date_str, date_str) ==
    strptime(current_date_str) - strptime(date_str) < 7

\* a check that takes the 30th day into the window
recent_inclusive(current_date_str, date_str) ==
    strptime(current_date_str) - strptime(date_str) <= 30

\* line 474: (today - existing_exp.date).days < 30
recent(current_date_str, date_str) ==
    strptime(current_date_str) - strptime(date_str) < 30

\* lines 470-473
same_expense(existing_exp, rec_exp) ==
    /\ existing_exp.description = rec_exp.description
    /\ existing_exp.amount = rec_exp.amount
    /\ existing_exp.paid_by = rec_exp.paid_by
    /\ existing_exp.category = rec_exp.category

\* lines 467-476
already_generated_recently(rec_exp, exps, current_date_str) ==
    \E i \in 1..Len(exps) :
        same_expense(exps[i], rec_exp) /\ recent(current_date_str, exps[i].date)

RECURSIVE generate_loop_snapshot(_, _, _, _, _, _)
\* a loop whose duplicate check scans the expense list as it was before the run
generate_loop_snapshot(i, exps, rec_exps, generated_count, gen, current_date_str) ==
    IF i > Len(rec_exps)
    THEN [expenses |-> exps, recurring_expenses |-> rec_exps,
          generated_count |-> generated_count, gen |-> gen]
    ELSE IF already_generated_recently(rec_exps[i], expenses, current_date_str)
    THEN generate_loop_snapshot(i + 1, exps, rec_exps, generated_count, gen, current_date_str)
    ELSE LET rec_exp == rec_exps[i]
             new_exp == Exp(uuid4(IdsOf(exps) \cup IdsOf(rec_exps) \cup UsedIds),
                            rec_exp.description, rec_exp.amount, rec_exp.paid_by,
                            rec_exp.participants, PyDate(today), rec_exp.category)
         IN  generate_loop_snapshot(i + 1, Append(exps, new_exp),
                                    [rec_exps EXCEPT ![i].last_generated = current_date_str],
                                    generated_count + 1, Append(gen, i), current_date_str)

RECURSIVE generate_loop(_, _, _, _, _, _)
\* lines 466-482, from definition i on: the expenses, the definitions, the
\* count and the positions of the definitions that generated
generate_loop(i, exps, rec_exps, generated_count, gen, current_date_str) ==
    IF i > Len(rec_exps)
    THEN [expenses |-> exps, recurring_expenses |-> rec_exps,
          generated_count |-> generated_count, gen |-> gen]
    ELSE IF already_generated_recently(rec_exps[i], exps, current_date_str)
    THEN generate_loop(i + 1, exps, rec_exps, generated_count, gen, current_date_str)
    ELSE LET rec_exp == rec_exps[i]
             new_exp == Exp(uuid4(IdsOf(exps) \cup IdsOf(rec_exps) \cup UsedIds),
                            rec_exp.description, rec_exp.amount, rec_exp.paid_by,
                            rec_exp.participants, PyDate(today), rec_exp.category)
         IN  generate_loop(i + 1, Append(exps, new_exp),
                           [rec_exps EXCEPT ![i].last_generated = current_date_str],
                           generated_count + 1, Append(gen, i), current_date_str)

\* lines 463-489: "Generate Recurring Expenses Now"
disp_recurring_generate ==
    /\ data_loaded_flag
    /\ recurring_expenses # <<>>
    /\ LET r == generate_loop(1, expenses, recurring_expenses, 0, <<>>, strftime(today))
       IN  /\ expenses' = r.expenses
           /\ recurring_expenses' = r.recurring_expenses
           /\ file' = sv_dat(members, expenses', recurring_expenses')
           /\ last' = [Ran("generate") EXCEPT
                           !.saved = TRUE, !.count = r.generated_count, !.gen = r.gen,
                           !.day = today,
                           !.gap = IF last.op = "generate" THEN today - last.day ELSE -1,
                           !.prev_count = IF last.op = "generate" THEN last.count ELSE 0]
    /\ UNCHANGED <<members, data_loaded_flag, loads, today>>

\* lines 494-509: "Delete Recurring Expense Definition" with an ID typed in
disp_recurring_delete(id) ==
    /\ data_loaded_flag
    /\ recurring_expenses # <<>>
    /\ IF id \in IdsOf(recurring_expenses)
       THEN /\ recurring_expenses' = SelectSeq(recurring_expenses, LAMBDA r : r.id # id)
            /\ file' = sv_dat(members, expenses, recurring_expenses')
            /\ last' = [Ran("delete_rec") EXCEPT !.saved = TRUE]
       ELSE /\ last' = [Ran("delete_rec") EXCEPT !.err = "st.error"]
            /\ UNCHANGED <<recurring_expenses, file>>
    /\ UNCHANGED <<members, expenses, data_loaded_flag, loads, today>>

\* lines 597-612: "Delete Expense" with an ID typed in
disp_exp_hist_delete(id) ==
    /\ data_loaded_flag
    /\ expenses # <<>>
    /\ IF id \in IdsOf(expenses)
       THEN /\ expenses' = SelectSeq(expenses, LAMBDA e : e.id # id)
            /\ file' = sv_dat(members, expenses', recurring_expenses)
            /\ last' = [Ran("delete_exp") EXCEPT !.saved = TRUE]
       ELSE /\ last' = [Ran("delete_exp") EXCEPT !.err = "st.error"]
            /\ UNCHANGED <<expenses, file>>
    /\ UNCHANGED <<members, recurring_expenses, data_loaded_flag, loads, today>>

\* a clear that forgets sv_dat
disp_exp_hist_clear_unsaved ==
    /\ data_loaded_flag
    /\ expenses # <<>>
    /\ expenses' = <<>>
    /\ last' = Ran("clear")
    /\ UNCHANGED <<members, recurring_expenses, data_loaded_flag, loads, today, file>>

\* lines 615-619: "Clear All Expenses (Start Fresh)"
disp_exp_hist_clear ==
    /\ data_loaded_flag
    /\ expenses # <<>>
    /\ expenses' = <<>>
    /\ file' = sv_dat(members, expenses', recurring_expenses)
    /\ last' = [Ran("clear") EXCEPT !.saved = TRUE]
    /\ UNCHANGED <<members, recurring_expenses, data_loaded_flag, loads, today>>

\* the calendar moves on between two script runs
Tick ==
    /\ today' \in {d \in Days : d > today}
    /\ UNCHANGED <<members, expenses, recurring_expenses, data_loaded_flag, loads, file, last>>

\* between two sessions something other than sv_dat leaves content in the
\* data file
FileReplaced(content) ==
    /\ ~data_loaded_flag
    /\ last.op # "ld_dat"
    /\ file' = content
    /\ UNCHANGED <<members, expenses, recurring_expenses, data_loaded_flag, loads, today, last>>

\* sug_setts is not running
SettIdle == SettInit({<<>>})

---------------------------------------------------------------------------
(* Spec: every action of a session, and the sessions that follow it on the  *)
(* same data file                                                           *)

LedgerInit ==
    /\ SessionInit
    /\ file = NoFile
    /\ today = 1
    /\ last = NoRun
    /\ other = SessionDefaults
    /\ SettIdle

\* room for one more expense, for one more definition, for a generation
RoomExp(max) == Len(expenses) < max
RoomRec(max) == Len(recurring_expenses) < max
RoomGen(max) == Len(expenses) + Len(recurring_expenses) <= max

\* an ID no record carries, typed into a delete box
NoSuchId == 0

\* data files that sv_dat did not write
NotJson == [kind |-> "garbage"]

NoDescription ==
    [kind |-> "json", members |-> <<"A">>,
     expenses |-> <<[id |-> 1, amount |-> 10000, paid_by |-> "A", participants |-> <<"A">>,
                     date |-> JStr(<<2025, 1, 1>>), category |-> "Rent"]>>,
     recurring_expenses |-> <<>>]

NullDate ==
    [kind |-> "json", members |-> <<"A", "B">>,
     expenses |-> <<[id |-> 1, description |-> "Rent", amount |-> 10000, paid_by |-> "A",
                     participants |-> <<"A">>, date |-> JNull, category |-> "Rent"]>>,
     recurring_expenses |-> <<>>]

NoFrequency ==
    [kind |-> "json", members |-> <<"A">>,
     expenses |-> <<[id |-> 1, description |-> "Rent", amount |-> 10000, paid_by |-> "A",
                     participants |-> <<"A">>, date |-> JStr(<<2025, 1, 1>>),
                     category |-> "Rent"]>>,
     recurring_expenses |-> <<[id |-> 2, description |-> "Rent", amount |-> 10000,
                               paid_by |-> "A", participants |-> <<"A">>,
                               category |-> "Rent", last_generated |-> JNull]>>]

MalformedFiles == {NotJson, NoDescription, NullDate, NoFrequency}

\* the inputs of Spec
StoreTexts ==
    { << <<"Alice">>, <<" ", "Bob">>, <<>>, <<"Charlie", " ">>, <<"Tim">> >>,
      << <<" ">> >> }
StoreDescs == {"", "Rent"}
StoreAmts == {10000}
StorePayers == IF members = <<>> THEN {NoPayer} ELSE {members[1]}
StoreParts == {<<>>, members}

Next ==
    \/ main_ld_dat /\ UNCHANGED <<settVars, other>>
    \/ NewSession /\ UNCHANGED <<settVars, other>>
    \/ \E text \in StoreTexts : disp_mems(text) /\ UNCHANGED <<settVars, other>>
    \/ \E desc \in StoreDescs, amt \in StoreAmts, pd_by \in StorePayers, parts \in StoreParts :
          RoomExp(MaxExps) /\ disp_add_exp(desc, amt, pd_by, parts, today, "Rent")
              /\ UNCHANGED <<settVars, other>>
    \/ \E desc \in StoreDescs, amt \in StoreAmts, pd_by \in StorePayers, parts \in StoreParts :
          RoomRec(MaxRecs) /\ disp_recurring_add(desc, amt, pd_by, parts, "Rent", "Monthly")
              /\ UNCHANGED <<settVars, other>>
    \/ RoomGen(MaxExps) /\ disp_recurring_generate /\ UNCHANGED <<settVars, other>>
    \/ \E id \in IdsOf(recurring_expenses) \cup {NoSuchId} :
          disp_recurring_delete(id) /\ UNCHANGED <<settVars, other>>
    \/ \E id \in IdsOf(expenses) \cup {NoSuchId} : disp_exp_hist_delete(id) /\ UNCHANGED <<settVars, other>>
    \/ disp_exp_hist_clear /\ UNCHANGED <<settVars, other>>
    \/ \E content \in MalformedFiles : FileReplaced(content) /\ UNCHANGED <<settVars, other>>

Spec == LedgerInit /\ [][Next]_vars

---------------------------------------------------------------------------
(* Properties of the session and the data file *)

\* the document that holds exactly the session's ledger
SessionDocument ==
    [kind |-> "json",
     members |-> members,
     expenses |-> [i \in 1..Len(expenses) |-> Exp_to_dict(expenses[i])],
     recurring_expenses |->
        [i \in 1..Len(recurring_expenses) |-> RecurringExp_to_dict(recurring_expenses[i])]]

\* C3 as claimed: when ld_dat has returned from loading a document that
\* sv_dat wrote, the session holds the ledger that was saved: its document is
\* the document in the file, ids, dates and last_generated included.
C3_LoadOfSaveIsIdentity ==
    (last.op = "ld_dat" /\ last.err = "none" /\ file.kind = "json") => SessionDocument = file

WithoutId(d) == [k \in DOMAIN d \ {"id"} |-> d[k]]

WithoutIds(doc) ==
    [kind |-> doc.kind,
     members |-> doc.members,
     expenses |-> [i \in 1..Len(doc.expenses) |-> WithoutId(doc.expenses[i])],
     recurring_expenses |->
        [i \in 1..Len(doc.recurring_expenses) |-> WithoutId(doc.recurring_expenses[i])]]

\* what does hold of a load: every field but the ids is the saved one
LoadKeepsAllButIds ==
    (last.op = "ld_dat" /\ last.err = "none" /\ file.kind = "json")
        => WithoutIds(SessionDocument) = WithoutIds(file)

\* C7 as claimed: when ld_dat has run on a data file that exists and is not
\* valid JSON, or holds a record without a required field or with an
\* unsupported date, it has ended without an exception and the session holds
\* the defaults.
C7_MalformedFileGivesDefaults ==
    (last.op = "ld_dat" /\ last.malformed) =>
        /\ last.err = "none"
        /\ members = DefaultMembers
        /\ expenses = <<>>
        /\ recurring_expenses = <<>>

\* C8: a step that ends with an add-expense or add-definition submission on
\* record that had an empty description, a non-positive amount, no payer or
\* no participant leaves members, expenses, definitions and the data file as
\* they were, and sv_dat was not called.
C8_InvalidSubmissionRejected ==
    [][(last'.op \in {"add_exp", "add_rec"} /\ last'.invalid)
          => (/\ UNCHANGED <<members, expenses, recurring_expenses, file>>
              /\ ~last'.saved
              /\ last'.err = "st.error")]_vars

\* a submission with members to choose from has been rejected
C8_Witness ==
    /\ last.op = "add_rec"
    /\ last.invalid
    /\ ~last.saved
    /\ members # <<>>
    /\ expenses # <<>>

MutatingOps ==
    {"update_members", "add_exp", "delete_exp", "clear", "add_rec", "delete_rec", "generate"}

\* C9: when a mutating action has completed (the last script run was one and
\* ended without an error message) the data file holds the document of exactly
\* the session's members, expenses and definitions; and a session completes
\* ld_dat once, before any of its actions: never twice, and the flag is set
\* exactly when it has.
C9_FileHoldsSessionLedger ==
    /\ (last.op \in MutatingOps /\ last.err = "none") => file = SessionDocument
    /\ loads <= 1
    /\ data_loaded_flag <=> loads = 1

\* a session that loaded definitions from the file has cleared its expenses
C9_Witness ==
    /\ last.op = "clear"
    /\ loads = 1
    /\ recurring_expenses # <<>>
    /\ file = SessionDocument

---------------------------------------------------------------------------
(* SpecBal: member lists and expenses, for calc_bals *)

\* the selections of the participants multiselect that SpecBal submits:
\* everybody (the default), everybody but the last member, nobody
BalParts == {<<>>, members} \cup (IF members = <<>> THEN {} ELSE {SubSeq(members, 1, Len(members) - 1)})

BalNext ==
    \/ main_ld_dat /\ UNCHANGED <<settVars, other>>
    \/ \E text \in MemberTexts : disp_mems(text) /\ UNCHANGED <<settVars, other>>
    \/ \E pd_by \in PayerChoices(members), parts \in BalParts :
          RoomExp(MaxBalExps) /\ disp_add_exp("Rent", 10000, pd_by, parts, today, "Rent")
              /\ UNCHANGED <<settVars, other>>
    \/ \E id \in IdsOf(expenses) : disp_exp_hist_delete(id) /\ UNCHANGED <<settVars, other>>

SpecBal == LedgerInit /\ [][BalNext]_vars

\* sum(bals.values()) is within 1e-6 of zero: 1e-6 is a 10000th of a cent
WithinMicro(sum) == Abs(sum) <= Scale \div 10000

\* every expense's payer and participants are current members
AllCurrent ==
    \A i \in 1..Len(expenses) :
        /\ expenses[i].paid_by \in Range(members)
        /\ Range(expenses[i].participants) \subseteq Range(members)

\* C1: whenever the payer and every participant of every expense are in the
\* current member list, the balances of calc_bals sum to zero within 1e-6.
C1_BalancesSumToZero ==
    AllCurrent => WithinMicro(SumBals(calc_bals(members, expenses)))

\* two expenses split three ways among current members, a share of 33.33...
C1_Witness ==
    /\ AllCurrent
    /\ Len(expenses) = 2
    /\ \A i \in 1..2 : Len(expenses[i].participants) = 3
    /\ \E i \in 1..Len(calc_bals(members, expenses)) : calc_bals(members, expenses)[i].bal # 0

\* the scenario of C6: one expense of 100 paid by A for A and B, and B gone
C6_Scenario ==
    /\ members = <<"A">>
    /\ Len(expenses) = 1
    /\ expenses[1].amount = 10000
    /\ expenses[1].paid_by = "A"
    /\ expenses[1].participants = <<"A", "B">>

\* C6 as claimed: in the scenario calc_bals returns {A: 100.0} and the sum of
\* the balances is not zero.
C6_RemovedParticipantLeavesCredit ==
    C6_Scenario =>
        /\ calc_bals(members, expenses) = <<[mem |-> "A", bal |-> 10000 * Scale]>>
        /\ SumBals(calc_bals(members, expenses)) # 0

\* C6, amended: in the scenario calc_bals returns {A: 0.0}: B has no entry, A
\* is credited 100 and debited the whole 100 as the only remaining
\* participant, and the sum of the balances is zero.
C6_RemovedParticipantShareFallsOnRest ==
    C6_Scenario =>
        /\ calc_bals(members, expenses) = <<[mem |-> "A", bal |-> 0]>>
        /\ SumBals(calc_bals(members, expenses)) = 0

\* the scenario, reached by removing B with "Update Members"
C6_Witness == C6_Scenario /\ last.op = "update_members"

---------------------------------------------------------------------------
(* SpecGen: recurring definitions, expenses of any date, and the calendar *)

\* description, amount, payer and category of the definitions (the first)
\* and of expenses that differ from it in one field
GenKinds ==
    {<<"Rent", 10000, "Alice", "Rent">>,
     <<"Gym", 10000, "Alice", "Rent">>,
     <<"Rent", 5000, "Alice", "Rent">>,
     <<"Rent", 10000, "Bob", "Rent">>,
     <<"Rent", 10000, "Alice", "Utilities">>}

GenDefinition == <<"Rent", 10000, "Alice", "Rent">>

\* the dates an expense is entered with: any day for an expense like the
\* definition, the first day for the others
GenDates(kind) == IF kind = GenDefinition THEN Days ELSE {1}

GenNext ==
    \/ main_ld_dat /\ UNCHANGED <<settVars, other>>
    \/ \E kind \in GenKinds : \E exp_dt \in GenDates(kind) :
          RoomExp(MaxGenExps)
              /\ disp_add_exp(kind[1], kind[2], kind[3], members, exp_dt, kind[4])
              /\ UNCHANGED <<settVars, other>>
    \/ RoomRec(MaxGenRecs)
          /\ disp_recurring_add(GenDefinition[1], GenDefinition[2], GenDefinition[3], members,
                                GenDefinition[4], "Weekly")
          /\ UNCHANGED <<settVars, other>>
    \/ RoomGen(MaxGenExps) /\ disp_recurring_generate /\ UNCHANGED <<settVars, other>>
    \/ Tick /\ UNCHANGED <<settVars, other>>

SpecGen == LedgerInit /\ [][GenNext]_vars

\* expense e has the description, amount, payer and category of definition r
Alike(e, r) ==
    /\ e.description = r.description
    /\ e.amount = r.amount
    /\ e.paid_by = r.paid_by
    /\ e.category = r.category

\* In a step of the generation: the expenses definition i is compared with,
\* those of the list before the run and those the run appended for earlier
\* definitions
SeenBy(i) ==
    Range(expenses) \cup
        {expenses'[Len(expenses) + k] : k \in {j \in 1..Len(last'.gen) : last'.gen[j] < i}}

\* C4 as claimed: a generation that follows a generation 0 to 30 days later,
\* with no other action in between, appends nothing.
C4_SecondRunAppendsNothing ==
    [][(disp_recurring_generate /\ last.op = "generate" /\ today - last.day \in 0..30)
          => (last'.count = 0 /\ expenses' = expenses)]_vars

\* C4, amended: a generation that follows a generation 0 to 29 days later,
\* with no other action in between, appends no expense for a definition the
\* first run appended one for; run again on the same day it appends nothing.
C4_NoRegenerationWithin29Days ==
    [][(disp_recurring_generate /\ last.op = "generate" /\ today - last.day \in 0..29)
          => (/\ Range(last'.gen) \cap Range(last.gen) = {}
              /\ today = last.day => (last'.count = 0 /\ expenses' = expenses))]_vars

\* a second run, 1 to 29 days after a run that generated, has generated nothing
C4_Witness ==
    /\ last.op = "generate"
    /\ last.gap \in 1..29
    /\ last.prev_count >= 1
    /\ last.count = 0

\* C5 as claimed: a definition is skipped exactly when an expense like it is
\* dated no more than 30 days before today, the 30th day included.
C5_SkippedIffWithin30Inclusive ==
    [][disp_recurring_generate =>
          \A i \in 1..Len(recurring_expenses) :
              (i \notin Range(last'.gen)) <=>
                  \E e \in SeenBy(i) :
                      /\ Alike(e, recurring_expenses[i])
                      /\ today - strptime(e.date) <= 30]_vars

\* C5, amended: a definition is skipped exactly when the expense list, as it
\* stands when the definition is examined, holds an expense like it dated
\* fewer than 30 days before today (a later date included): 29 days before
\* today causes the skip, exactly 30 days before today does not.
C5_SkippedIffFewerThan30Days ==
    [][disp_recurring_generate =>
          \A i \in 1..Len(recurring_expenses) :
              (i \notin Range(last'.gen)) <=>
                  \E e \in SeenBy(i) :
                      /\ Alike(e, recurring_expenses[i])
                      /\ today - strptime(e.date) < 30]_vars

\* a definition has generated although an expense like it is dated exactly
\* 30 days before the day of the run
C5_Witness ==
    /\ last.op = "generate"
    /\ \E k \in 1..Len(last.gen) : \E j \in 1..Len(expenses) :
          /\ Alike(expenses[j], recurring_expenses[last.gen[k]])
          /\ last.day - strptime(expenses[j].date) = 30

---------------------------------------------------------------------------
(* The member list *)

\* C11: the session's member list contains no name twice.
C11_MemberNamesUnique ==
    \A i, j \in 1..Len(members) : members[i] = members[j] => i = j

---------------------------------------------------------------------------
(* SpecTwo: two browser sessions on one data file.  Each session has its   *)
(* own st.session_state; the variables members, expenses,                  *)
(* recurring_expenses, data_loaded_flag and loads are those of the session *)
(* whose script runs next, and other holds those of the second session.    *)

\* the script run that follows is the other session's
SwitchSession ==
    /\ members' = other.members
    /\ expenses' = other.expenses
    /\ recurring_expenses' = other.recurring_expenses
    /\ data_loaded_flag' = other.data_loaded_flag
    /\ loads' = other.loads
    /\ other' = [members |-> members, expenses |-> expenses,
                 recurring_expenses |-> recurring_expenses,
                 data_loaded_flag |-> data_loaded_flag, loads |-> loads]
    /\ last' = Ran("switch_session")
    /\ UNCHANGED <<file, today>>

TwoNext ==
    \/ main_ld_dat /\ UNCHANGED <<settVars, other>>
    \/ \E text \in StoreTexts : disp_mems(text) /\ UNCHANGED <<settVars, other>>
    \/ \E pd_by \in StorePayers, parts \in StoreParts, category \in {"Rent", "Utilities"} :
          RoomExp(MaxTwoExps) /\ disp_add_exp("Rent", 10000, pd_by, parts, today, category)
              /\ UNCHANGED <<settVars, other>>
    \/ SwitchSession /\ UNCHANGED settVars

SpecTwo == LedgerInit /\ [][TwoNext]_vars

\* the session documents of an expense list, ids left out
Contents(exps) == {WithoutId(Exp_to_dict(exps[i])) : i \in 1..Len(exps)}

\* C12: with two sessions on the same data file, each loading it once, a
\* script run that has saved leaves in the file the document of exactly the
\* saving session's ledger, whatever the file held and whatever the other
\* session holds (last write wins); a state in which an expense that one
\* session added and saved is no longer in the file after a mutation of the
\* other session is reachable (C12_Witness).
C12_LastWriteWins ==
    /\ loads <= 1 /\ other.loads <= 1
    /\ last.saved =>
          /\ file = sv_dat(members, expenses, recurring_expenses)
          /\ \A d \in Range(file.expenses) :
                WithoutId(d) \in Contents(expenses)

\* the lost update: both sessions have loaded, the other session holds an
\* expense it added (SpecTwo has no deletion), and a save of this session has
\* left the file without it
C12_Witness ==
    /\ data_loaded_flag /\ other.data_loaded_flag
    /\ last.saved /\ last.op \in {"update_members", "add_exp"}
    /\ \E i \in 1..Len(other.expenses) :
          /\ other.expenses[i].id \notin FileIds(file)
          /\ WithoutId(Exp_to_dict(other.expenses[i])) \notin
                {WithoutId(d) : d \in Range(file.expenses)}

---------------------------------------------------------------------------
(* The settlement procedure as specified: round every balance first, then  *)
(* drop the members whose rounded balance is within a cent                 *)

\* the rounded balance the run of sug_setts gave member mem, if it kept mem
Kept(mem, chosen) == {chosen[i].bal : i \in {j \in 1..Len(chosen) : chosen[j].mem = mem}}

RECURSIVE SpecCleanChoices(_, _)
\* step 1 of the procedure on the dict b: every member rounded, by the same
\* round() that gave the run its values chosen, and kept if the rounded
\* value is beyond a cent
SpecCleanChoices(b, chosen) ==
    IF b = <<>> THEN {<<>>}
    ELSE LET rest == SpecCleanChoices(Tail(b), chosen)
             rounded == IF Kept(Head(b).mem, chosen) # {}
                        THEN Kept(Head(b).mem, chosen)
                        ELSE RoundChoices(Head(b).bal)
         IN  UNION {IF Abs(c) > 1
                    THEN {<<[mem |-> Head(b).mem, bal |-> c]>> \o r : r \in rest}
                    ELSE rest : c \in rounded}

\* whether the remainder amt of member name is > 0.01: for a remainder of one
\* cent, what the same subtraction of floats gave in the run that ended with
\* the items finals
SpecGt(name, amt, finals) ==
    IF amt # 1 THEN amt > 1
    ELSE LET its == {x \in Range(finals) : x.name = name /\ x.amt = 1}
         IN  IF its = {} THEN TRUE ELSE \A x \in its : x.gt

RECURSIVE SpecWalk(_, _, _, _, _, _)
\* steps 4 to 6 of the procedure
SpecWalk(ds, cs, d, c, acc, finals) ==
    IF ~(d < Len(ds) /\ c < Len(cs)) THEN SelectSeq(acc, LAMBDA p : p.gt)
    ELSE IF ~ds[d + 1].gt THEN SpecWalk(ds, cs, d + 1, c, acc, finals)
    ELSE IF ~cs[c + 1].gt THEN SpecWalk(ds, cs, d, c + 1, acc, finals)
    ELSE LET deb == ds[d + 1]
             cred == cs[c + 1]
             pay == Min(deb.amt, cred.amt)
         IN  SpecWalk([ds EXCEPT ![d + 1] = [name |-> deb.name, amt |-> deb.amt - pay,
                                             gt |-> SpecGt(deb.name, deb.amt - pay, finals)]],
                      [cs EXCEPT ![c + 1] = [name |-> cred.name, amt |-> cred.amt - pay,
                                             gt |-> SpecGt(cred.name, cred.amt - pay, finals)]],
                      d, c,
                      Append(acc, [d |-> deb.name, c |-> cred.name, amt |-> pay, gt |-> TRUE]),
                      finals)

\* steps 2 and 3: an item of the lists of the procedure
SpecItems(clean, sign) ==
    LET picked == SelectSeq(clean, LAMBDA x : x.bal * sign > 0)
    IN  sorted_desc([i \in 1..Len(picked) |->
                        [name |-> picked[i].mem, amt |-> Abs(picked[i].bal), gt |-> TRUE]])

\* C13: sug_setts, which drops the members whose unrounded balance is within
\* a cent and rounds the others, returns the settlement list of the
\* procedure that rounds every balance and then drops the members whose
\* rounded balance is within a cent.
C13_SameAsRoundThenDrop ==
    pc = "done" =>
        \A clean \in SpecCleanChoices(bals, clean_bals) :
            setts = SpecWalk(SpecItems(clean, -1), SpecItems(clean, 1), 0, 0, <<>>,
                             sorted_debtors \o sorted_creds)

\* a run that kept a member whose balance rounds to one cent, which the
\* procedure drops, and that returned a payment
C13_Witness ==
    /\ pc = "done"
    /\ setts # <<>>
    /\ \E i \in 1..Len(clean_bals) : Abs(clean_bals[i].bal) = 1
    /\ SpecCleanChoices(bals, clean_bals) # {clean_bals}

---------------------------------------------------------------------------
(* The sum of the balances when names were removed from the members *)

PayerIsMember(e) == e.paid_by \in Range(members)

SomeParticipantIsMember(e) == Range(e.participants) \cap Range(members) # {}

RECURSIVE PayerCredits(_)
\* the sum, in units, of the amounts of the expenses whose payer is a member
PayerCredits(exps) ==
    IF exps = <<>> THEN 0
    ELSE (IF PayerIsMember(Head(exps)) THEN Head(exps).amount * Scale ELSE 0)
             + PayerCredits(Tail(exps))

RECURSIVE SplitDebits(_)
\* the sum, in units, of the amounts of the expenses with a participant who
\* is a member
SplitDebits(exps) ==
    IF exps = <<>> THEN 0
    ELSE (IF SomeParticipantIsMember(Head(exps)) THEN Head(exps).amount * Scale ELSE 0)
             + SplitDebits(Tail(exps))

\* C14: for every member list and expense list, removed names included, the
\* balances of calc_bals sum to the amounts of the expenses whose payer is a
\* current member minus the amounts of the expenses with at least one
\* participant who is a current member; an expense whose payer and at least
\* one participant are current members adds zero to the sum.
C14_SumIsCreditsMinusSplits ==
    /\ SumBals(calc_bals(members, expenses)) =
          PayerCredits(expenses) - SplitDebits(expenses)
    /\ \A i \in 1..Len(expenses) :
          (PayerIsMember(expenses[i]) /\ SomeParticipantIsMember(expenses[i]))
              => SumBals(calc_bals(members, <<expenses[i]>>)) = 0

\* one expense whose payer is a member and whose participants are all gone,
\* and one whose payer and one participant are members and another
\* participant is gone
C14_Witness ==
    /\ \E i \in 1..Len(expenses) :
          PayerIsMember(expenses[i]) /\ ~SomeParticipantIsMember(expenses[i])
    /\ \E j \in 1..Len(expenses) :
          /\ PayerIsMember(expenses[j]) /\ SomeParticipantIsMember(expenses[j])
          /\ ~(Range(expenses[j].participants) \subseteq Range(members))
    /\ SumBals(calc_bals(members, expenses)) # 0

---------------------------------------------------------------------------
(* SpecRun: one run of the generation over several definitions *)

\* the participants and the frequency of the definitions SpecRun adds
RunParts == {members, <<"Alice">>}
RunFrequencies == {"Weekly", "Monthly"}

RunNext ==
    \/ main_ld_dat /\ UNCHANGED <<settVars, other>>
    \/ RoomExp(MaxRunExps - 1)
          /\ disp_add_exp(GenDefinition[1], GenDefinition[2], GenDefinition[3], members,
                          today, GenDefinition[4])
          /\ UNCHANGED <<settVars, other>>
    \/ \E rec_desc \in {"Rent", "Gym"}, rec_parts \in RunParts, rec_frequency \in RunFrequencies :
          RoomRec(MaxRunRecs)
              /\ disp_recurring_add(rec_desc, GenDefinition[2], GenDefinition[3], rec_parts,
                                    GenDefinition[4], rec_frequency)
              /\ UNCHANGED <<settVars, other>>
    \/ RoomGen(MaxRunExps) /\ disp_recurring_generate /\ UNCHANGED <<settVars, other>>

SpecRun == LedgerInit /\ [][RunNext]_vars

\* C15: in one run of the generation, of the definitions that share
\* description, amount, paid_by and category only the first can generate, so
\* at most one expense is appended for them; last_generated becomes today for
\* the definitions that generated and stays as it was for the others; and
\* the generated count is the number of expenses appended.
C15_OneExpensePerAlikeDefinitions ==
    [][last'.op = "generate" =>
          /\ \A i, j \in 1..Len(recurring_expenses) :
                (i < j /\ Alike(recurring_expenses[i], recurring_expenses[j]))
                    => j \notin Range(last'.gen)
          /\ \A i, j \in 1..Len(last'.gen) : last'.gen[i] = last'.gen[j] => i = j
          /\ Len(recurring_expenses') = Len(recurring_expenses)
          /\ \A j \in 1..Len(recurring_expenses) :
                recurring_expenses'[j] =
                    IF j \in Range(last'.gen)
                    THEN [recurring_expenses[j] EXCEPT !.last_generated = strftime(today)]
                    ELSE recurring_expenses[j]
          /\ Len(expenses') = Len(expenses) + last'.count
          /\ SubSeq(expenses', 1, Len(expenses)) = expenses
          /\ last'.count = Len(last'.gen)
          /\ \A k \in 1..Len(last'.gen) :
                /\ Alike(expenses'[Len(expenses) + k], recurring_expenses[last'.gen[k]])
                /\ expenses'[Len(expenses) + k].date = strftime(today)]_vars

\* a run over two definitions alike in the four fields and different in
\* participants and frequency: the first generated, the second did not
C15_Witness ==
    /\ last.op = "generate"
    /\ Len(recurring_expenses) = 2
    /\ Alike(recurring_expenses[1], recurring_expenses[2])
    /\ recurring_expenses[1].participants # recurring_expenses[2].participants
    /\ recurring_expenses[1].frequency # recurring_expenses[2].frequency
    /\ last.gen = <<1>> /\ last.count = 1
    /\ recurring_expenses[1].last_generated = strftime(today)
    /\ recurring_expenses[2].last_generated = None
    /\ Len(expenses) = 1

=============================================================================
